---- MODULE Spec2Model ----
(***************************************************************************)
(* Model of the grid-to-mesh engine (cbm_measurement.py) and of the        *)
(* registration entry point (registration.py) of postural-index.           *)
(*                                                                         *)
(* Numbers.  Every length is an integer number of 10-micrometre units      *)
(* (1e-5 m), the coarsest unit in which the program's constants are whole: *)
(* 0.04445 m = 4445, 2 cm = 2000, 21.5 cm = 21500.  The pointer argument   *)
(* of the constructor is given in 1e-3 cm, so that pointer / 100 (metres)  *)
(* has the same numeral in units.  Depth samples are in units as well.     *)
(* Recline angles are multiples of 90 degrees, where cos and sin are       *)
(* -1, 0 or 1 (the 1e-16 residue of the floating point values vanishes at  *)
(* the unit).  Vertex indices stored in triangles are 0-based as in the    *)
(* program; sequences are 1-based, so vertex k is V[k + 1].                *)
(*                                                                         *)
(* A call that can raise returns [err |-> "none", val |-> v] or            *)
(* [err |-> <exception class>, val |-> <<>>].                              *)
(***************************************************************************)
EXTENDS Integers, Sequences, FiniteSets, TLC

(* ---------------------------------------------------------------------- *)
(* Bounds of the explored inputs                                          *)
(* ---------------------------------------------------------------------- *)
MaxRows == 3
MaxCols == 3
MaxBackDim == 2
MaxDepth == 1
MaxMeasurements == 3
MaxVertices == 4

(* ---------------------------------------------------------------------- *)
(* Program constants (CbmMeasurement.__init__), in units                  *)
(* ---------------------------------------------------------------------- *)
X_RESOLUTION == 4445
Y_RESOLUTION == 4445
HEIGHT_FROM_BASE_TO_BACK == 2000
DEPTH_FROM_MEASURED_PIN_TO_ROTATION_AXIS == 21500
HEIGHT_FROM_MEASURED_PIN_TO_ROTATION_AXIS == 2000
\* |tan(+-pi/2)| in floating point is 1.6e16; times 0.02 m it is 3.3e14 m.
\* Any length beyond every grid extent compares the same way; this one fits
\* the model checker's integers.
HUGE_LENGTH == 1000000000

Ok(v) == [err |-> "none", val |-> v]
Raise(e) == [err |-> e, val |-> <<>>]

\* the sequence <<F(i), ..., F(n)>>, built element by element
RECURSIVE Tabulate(_, _, _)
Tabulate(F(_), i, n) == IF i > n THEN <<>> ELSE <<F(i)>> \o Tabulate(F, i + 1, n)

(* ---------------------------------------------------------------------- *)
(* Height fields: [rows, cols, data] with data in row-major order         *)
(* (np.reshape(M, [rows * cols])).                                        *)
(* ---------------------------------------------------------------------- *)
Flat(R, C, d) ==
    LET Cell(i) == d
    IN  [rows |-> R, cols |-> C, data |-> Tabulate(Cell, 1, R * C)]
Bump(R, C, b, h) ==
    LET Cell(i) == IF i = b THEN h ELSE 0
    IN  [rows |-> R, cols |-> C, data |-> Tabulate(Cell, 1, R * C)]

\* base matrices: flat at depth 0 or MaxDepth, or the first or the last cell
\* at depth MaxDepth
BaseFields ==
    UNION { { Flat(R, C, 0), Flat(R, C, MaxDepth) }
            \cup { Bump(R, C, b, MaxDepth) : b \in {1, R * C} \cap 1..(R * C) }
          : R \in 0..MaxRows, C \in 0..MaxCols }

\* back matrices: flat at depth 0, or the largest grid with its first cell
\* at depth MaxDepth
BackFields ==
    { Flat(R, C, 0) : R \in 1..MaxBackDim, C \in 1..MaxBackDim }
        \cup { Bump(MaxBackDim, MaxBackDim, 1, MaxDepth) }

\* <<pointer, angle>> arguments.  The pointer is in 1e-3 cm: on the second
\* grid row, between the second and the third, on the third.  At 0 and 180
\* degrees the cutoff lies beyond the grid whatever the pointer is.
PlacementValues == {<<4445, 90>>, <<6000, 90>>, <<8890, 90>>, <<0, 0>>, <<4445, 180>>}
ResolutionValues == {1, X_RESOLUTION}

(* ---------------------------------------------------------------------- *)
(* 4x4 homogeneous transforms                                             *)
(* ---------------------------------------------------------------------- *)
Identity4 == << <<1, 0, 0, 0>>, <<0, 1, 0, 0>>, <<0, 0, 1, 0>>, <<0, 0, 0, 1>> >>

MatMul(A, B) ==
    LET E(i, j) == A[i][1] * B[1][j] + A[i][2] * B[2][j]
                   + A[i][3] * B[3][j] + A[i][4] * B[4][j]
        Row(i) == <<E(i, 1), E(i, 2), E(i, 3), E(i, 4)>>
    IN  <<Row(1), Row(2), Row(3), Row(4)>>

\* np.cos / np.sin of np.deg2rad(angle) for the multiples of 90 degrees
Cos(angle) == CASE angle % 360 = 0 -> 1
                [] angle % 360 = 90 -> 0
                [] angle % 360 = 180 -> -1
                [] angle % 360 = 270 -> 0
Sin(angle) == CASE angle % 360 = 0 -> 0
                [] angle % 360 = 90 -> 1
                [] angle % 360 = 180 -> 0
                [] angle % 360 = 270 -> -1

rotate_x(M, angle) ==
    MatMul(M, << <<1, 0, 0, 0>>,
                 <<0, Cos(angle), -Sin(angle), 0>>,
                 <<0, Sin(angle), Cos(angle), 0>>,
                 <<0, 0, 0, 1>> >>)

translate(M, t) ==
    MatMul(M, << <<1, 0, 0, 0>>,
                 <<0, 1, 0, 0>>,
                 <<0, 0, 1, 0>>,
                 <<t[1], t[2], t[3], 1>> >>)

base_model_matrix == Identity4

\* back_model_matrix with the gap between back and base laid along y
back_model_matrix_gap_along_y(pointer_position, recline_angle) ==
    LET M1 == rotate_x(Identity4, -90)
        M2 == translate(M1, <<0, -DEPTH_FROM_MEASURED_PIN_TO_ROTATION_AXIS,
                                 -HEIGHT_FROM_MEASURED_PIN_TO_ROTATION_AXIS>>)
        M3 == rotate_x(M2, recline_angle - 90)
        M4 == translate(M3, <<0, DEPTH_FROM_MEASURED_PIN_TO_ROTATION_AXIS,
                                 HEIGHT_FROM_MEASURED_PIN_TO_ROTATION_AXIS>>)
        M5 == translate(M4, <<0, pointer_position, 0>>)
    IN  translate(M5, <<0, HEIGHT_FROM_BASE_TO_BACK, 0>>)

back_model_matrix(pointer_position, recline_angle) ==
    LET M1 == rotate_x(Identity4, -90)
        M2 == translate(M1, <<0, -DEPTH_FROM_MEASURED_PIN_TO_ROTATION_AXIS,
                                 -HEIGHT_FROM_MEASURED_PIN_TO_ROTATION_AXIS>>)
        M3 == rotate_x(M2, recline_angle - 90)
        M4 == translate(M3, <<0, DEPTH_FROM_MEASURED_PIN_TO_ROTATION_AXIS,
                                 HEIGHT_FROM_MEASURED_PIN_TO_ROTATION_AXIS>>)
        M5 == translate(M4, <<0, pointer_position, 0>>)
    IN  translate(M5, <<0, 0, HEIGHT_FROM_BASE_TO_BACK>>)

(* ---------------------------------------------------------------------- *)
(* create_vertices                                                        *)
(* ---------------------------------------------------------------------- *)
\* row vector [x, y, z, w] @ T, without the w column
Transform(v, T) ==
    LET E(j) == v[1] * T[1][j] + v[2] * T[2][j] + v[3] * T[3][j] + v[4] * T[4][j]
    IN  <<E(1), E(2), E(3)>>

\* create_vertices with the rows laid out top to bottom (y grows with the row)
create_vertices_unflipped(M, T, x_resolution, y_resolution) ==
    IF M.rows = 0
    THEN Raise("ValueError")
    ELSE LET Vertex(i) ==
                 LET k == i - 1
                     r == k \div M.cols
                     c == k % M.cols
                     x == c * x_resolution
                     y == r * y_resolution
                     z == -M.data[i]
                 IN  Transform(<<x, y, z, 1>>, T)
         IN  Ok(Tabulate(Vertex, 1, M.rows * M.cols))

create_vertices(M, T, x_resolution, y_resolution) ==
    IF M.rows = 0
    THEN Raise("ValueError")      \* np.hstack of an empty list of rows
    ELSE LET Vertex(i) ==
                 LET k == i - 1
                     r == k \div M.cols
                     c == k % M.cols
                     x == c * x_resolution
                     y == ((M.rows - r) - 1) * y_resolution
                     z == -M.data[i]
                 IN  Transform(<<x, y, z, 1>>, T)
         IN  Ok(Tabulate(Vertex, 1, M.rows * M.cols))

(* ---------------------------------------------------------------------- *)
(* create_triangles                                                       *)
(* ---------------------------------------------------------------------- *)
\* create_triangles with v3 taken below v1 instead of below v2
create_triangles_same_corner(M) ==
    IF M.rows < 2 THEN Raise("ValueError")
    ELSE IF M.cols < 2 THEN Raise("ValueError")
    ELSE LET number_of_squares == (M.rows - 1) * (M.cols - 1)
             number_of_triangles == 2 * number_of_squares
             Triangle(j) ==
                 LET idx == (j - 1) \div 2
                     v1 == idx + (idx \div (M.cols - 1))
                     v2 == v1 + 1
                     v3 == v1 + M.cols
                     v4 == v1 + M.cols
                 IN  IF (j - 1) % 2 = 0 THEN <<v1, v3, v2>> ELSE <<v3, v1, v4>>
         IN  Ok(Tabulate(Triangle, 1, number_of_triangles))

\* create_triangles with the second triangle of each square wound the other way
create_triangles_clockwise(M) ==
    IF M.rows < 2 THEN Raise("ValueError")
    ELSE IF M.cols < 2 THEN Raise("ValueError")
    ELSE LET number_of_squares == (M.rows - 1) * (M.cols - 1)
             number_of_triangles == 2 * number_of_squares
             Triangle(j) ==
                 LET idx == (j - 1) \div 2
                     v1 == idx + (idx \div (M.cols - 1))
                     v2 == v1 + 1
                     v3 == v2 + M.cols
                     v4 == v1 + M.cols
                 IN  IF (j - 1) % 2 = 0 THEN <<v1, v3, v2>> ELSE <<v3, v4, v1>>
         IN  Ok(Tabulate(Triangle, 1, number_of_triangles))

\* create_triangles without the check of the number of rows
create_triangles_rows_unchecked(M) ==
    IF M.cols < 2 THEN Raise("ValueError")
    ELSE LET number_of_squares == (M.rows - 1) * (M.cols - 1)
             number_of_triangles == 2 * number_of_squares
             Triangle(j) ==
                 LET idx == (j - 1) \div 2
                     v1 == idx + (idx \div (M.cols - 1))
                     v2 == v1 + 1
                     v3 == v2 + M.cols
                     v4 == v1 + M.cols
                 IN  IF (j - 1) % 2 = 0 THEN <<v1, v3, v2>> ELSE <<v3, v1, v4>>
         IN  Ok(Tabulate(Triangle, 1, number_of_triangles))

create_triangles(M) ==
    IF M.rows < 2 THEN Raise("ValueError")
    ELSE IF M.cols < 2 THEN Raise("ValueError")
    ELSE LET number_of_squares == (M.rows - 1) * (M.cols - 1)
             number_of_triangles == 2 * number_of_squares
             \* row j of T (1-based): t1 of square idx at 2 * idx, t2 after it
             Triangle(j) ==
                 LET idx == (j - 1) \div 2
                     v1 == idx + (idx \div (M.cols - 1))
                     v2 == v1 + 1
                     v3 == v2 + M.cols
                     v4 == v1 + M.cols
                 IN  IF (j - 1) % 2 = 0 THEN <<v1, v3, v2>> ELSE <<v3, v1, v4>>
         IN  Ok(Tabulate(Triangle, 1, number_of_triangles))

(* ---------------------------------------------------------------------- *)
(* create_normals                                                         *)
(* ---------------------------------------------------------------------- *)
Sub3(a, b) == <<a[1] - b[1], a[2] - b[2], a[3] - b[3]>>
Cross(a, b) == <<a[2] * b[3] - a[3] * b[2],
                 a[3] * b[1] - a[1] * b[3],
                 a[1] * b[2] - a[2] * b[1]>>

\* create_normals whose loop stops one triangle early
create_normals_short(V, T) ==
    LET Normal(i) ==
            LET v1 == V[T[i][1] + 1]
                v2 == V[T[i][2] + 1]
                v3 == V[T[i][3] + 1]
            IN  Cross(Sub3(v1, v3), Sub3(v1, v2))
    IN  Tabulate(Normal, 1, Len(T) - 1)

create_normals(V, T) ==
    LET Normal(i) ==
            LET v1 == V[T[i][1] + 1]
                v2 == V[T[i][2] + 1]
                v3 == V[T[i][3] + 1]
            IN  Cross(Sub3(v1, v3), Sub3(v1, v2))
    IN  Tabulate(Normal, 1, Len(T))

(* ---------------------------------------------------------------------- *)
(* remove_unused_pins                                                     *)
(* ---------------------------------------------------------------------- *)
\* height_from_measured_pin_to_rotation_axis * np.tan(theta),
\* theta = (recline_angle - 90) * pi / 180
HeightTimesTan(recline_angle) ==
    CASE recline_angle = 0 -> -HUGE_LENGTH
      [] recline_angle = 90 -> 0
      [] recline_angle = 180 -> HUGE_LENGTH

cutoff_depth(pointer_position, recline_angle) ==
    pointer_position - HeightTimesTan(recline_angle)

\* the positions (1-based) of s whose element satisfies the test, in order
RECURSIVE Positions(_, _, _)
Positions(s, Test(_), i) ==
    IF i > Len(s) THEN <<>>
    ELSE (IF Test(s[i]) THEN <<i>> ELSE <<>>) \o Positions(s, Test, i + 1)

Pick(s, pos) == LET At(j) == s[pos[j]] IN Tabulate(At, 1, Len(pos))

MinOfSet(S) == CHOOSE m \in S : \A x \in S : m <= x
MaxOfSet(S) == CHOOSE m \in S : \A x \in S : m >= x
TriangleIndices(T) == UNION { {T[i][1], T[i][2], T[i][3]} : i \in 1..Len(T) }

\* the mask without the negation: True where y >= cutoff
VertexMask_unnegated(v, cutoff) == v[2] >= cutoff

\* the mask the program calls vertices_to_remove: True where y < cutoff
VertexMask(v, cutoff) == ~(v[2] >= cutoff)

\* Renumber without the subtraction
Renumber_unshifted(T) ==
    IF Len(T) = 0
    THEN Raise("ValueError")
    ELSE Ok(T)

\* Renumber that returns an empty triangle list as it is
Renumber_empty_allowed(T) ==
    IF Len(T) = 0
    THEN Ok(T)
    ELSE LET minimum_vertex_number == MinOfSet(TriangleIndices(T))
             Renumbered(i) == <<T[i][1] - minimum_vertex_number,
                                T[i][2] - minimum_vertex_number,
                                T[i][3] - minimum_vertex_number>>
         IN  Ok(Tabulate(Renumbered, 1, Len(T)))

\* T = np.subtract(T, np.min(T)); np.min raises on a zero-size array
Renumber(T) ==
    IF Len(T) = 0
    THEN Raise("ValueError")
    ELSE LET minimum_vertex_number == MinOfSet(TriangleIndices(T))
             Renumbered(i) == <<T[i][1] - minimum_vertex_number,
                                T[i][2] - minimum_vertex_number,
                                T[i][3] - minimum_vertex_number>>
         IN  Ok(Tabulate(Renumbered, 1, Len(T)))

\* remove_unused_pins that takes the 1-based positions of the removed
\* vertices for their 0-based indices
remove_unused_pins_indices_shifted(V, T, pointer_position, recline_angle) ==
    LET cutoff == cutoff_depth(pointer_position, recline_angle)
        InMask(v) == VertexMask(v, cutoff)
        selected == Positions(V, InMask, 1)
        V_out == Pick(V, selected)
        indices == { p \in 1..Len(V) : ~InMask(V[p]) }
        NoRemoved(t) == ~(t[1] \in indices \/ t[2] \in indices \/ t[3] \in indices)
        T_kept == Pick(T, Positions(T, NoRemoved, 1))
        renumbered == Renumber(T_kept)
    IN  IF renumbered.err # "none"
        THEN Raise(renumbered.err)
        ELSE Ok([V |-> V_out, T |-> renumbered.val])

remove_unused_pins(V, T, pointer_position, recline_angle) ==
    LET cutoff == cutoff_depth(pointer_position, recline_angle)
        InMask(v) == VertexMask(v, cutoff)
        selected == Positions(V, InMask, 1)
        V_out == Pick(V, selected)
        \* 0-based indices of the vertices where the mask is False
        indices == { i - 1 : i \in { p \in 1..Len(V) : ~InMask(V[p]) } }
        NoRemoved(t) == ~(t[1] \in indices \/ t[2] \in indices \/ t[3] \in indices)
        T_kept == Pick(T, Positions(T, NoRemoved, 1))
        renumbered == Renumber(T_kept)
    IN  IF renumbered.err # "none"
        THEN Raise(renumbered.err)
        ELSE Ok([V |-> V_out, T |-> renumbered.val])

(* ---------------------------------------------------------------------- *)
(* CbmMeasurement.__init__ and initialise                                 *)
(* ---------------------------------------------------------------------- *)
\* the fields assigned by __init__ before it calls initialise; `assigned`
\* is the set of the mesh attributes (V, T, N) that exist on the object
NewObject(base, back, pointer, angle) ==
    [type |-> "CBM Measurement",
     x_resolution |-> X_RESOLUTION,
     y_resolution |-> Y_RESOLUTION,
     base_matrix |-> base,
     back_matrix |-> back,
     pointer_position |-> pointer,
     recline_angle |-> angle,
     assigned |-> {},
     V |-> <<>>, T |-> <<>>, N |-> <<>>]

\* AddOffset that leaves the indices as they are
AddOffset_none(T, n) ==
    LET Shifted(i) == <<T[i][1], T[i][2], T[i][3]>>
    IN  Tabulate(Shifted, 1, Len(T))

AddOffset(T, n) ==
    LET Shifted(i) == <<T[i][1] + n, T[i][2] + n, T[i][3] + n>>
    IN  Tabulate(Shifted, 1, Len(T))

\* the outcome of initialise: the exception and the call that raised it, or
\* the local variables and the three attributes it assigns last
Failed(obj, e, where) == [err |-> e, stage |-> where, obj |-> obj, locals |-> <<>>]

initialise(obj) ==
    LET V1 == create_vertices(obj.base_matrix, base_model_matrix,
                              obj.x_resolution, obj.y_resolution)
        V2 == create_vertices(obj.back_matrix,
                              back_model_matrix(obj.pointer_position, obj.recline_angle),
                              obj.x_resolution, obj.y_resolution)
        T1 == create_triangles(obj.base_matrix)
        T2 == create_triangles(obj.back_matrix)
    IN  IF V1.err # "none" THEN Failed(obj, V1.err, "create_vertices")
        ELSE IF V2.err # "none" THEN Failed(obj, V2.err, "create_vertices")
        ELSE IF T1.err # "none" THEN Failed(obj, T1.err, "create_triangles")
        ELSE IF T2.err # "none" THEN Failed(obj, T2.err, "create_triangles")
        ELSE LET trimmed == remove_unused_pins(V1.val, T1.val,
                                               obj.pointer_position, obj.recline_angle)
             IN  IF trimmed.err # "none"
                 THEN Failed(obj, trimmed.err, "remove_unused_pins")
                 ELSE LET number_of_vertices_in_v1 == Len(trimmed.val.V)
                          T2_offset == AddOffset(T2.val, number_of_vertices_in_v1)
                          V == trimmed.val.V \o V2.val
                          T == trimmed.val.T \o T2_offset
                          N == create_normals(V, T)
                      IN  [err |-> "none", stage |-> "done",
                           obj |-> [obj EXCEPT !.assigned = {"V", "T", "N"},
                                               !.V = V, !.T = T, !.N = N],
                           locals |-> [V1 |-> trimmed.val.V, T1 |-> trimmed.val.T,
                                       V2 |-> V2.val, T2 |-> T2.val,
                                       number_of_vertices_in_v1 |->
                                           number_of_vertices_in_v1]]

(* ---------------------------------------------------------------------- *)
(* Registration.register                                                  *)
(* ---------------------------------------------------------------------- *)
\* A mesh is the input mesh number id, or what an aligner made of source
\* mesh number id with the given target and callback.
InputMesh(i) == [by |-> "input", id |-> i, target |-> 0, callback |-> "None"]
MeshIds == 1..MaxMeasurements
MethodValues == {"rigid", "affine", "soft", "bogus"}
CallbackValues == {"None", "callback"}

RECURSIVE SeqsUpTo(_, _)
SeqsUpTo(S, n) ==
    IF n = 0 THEN { <<>> }
    ELSE LET shorter == SeqsUpTo(S, n - 1)
         IN  shorter \cup { Append(s, x) : s \in { t \in shorter : Len(t) = n - 1 }, x \in S }

MeasurementLists == SeqsUpTo({ InputMesh(i) : i \in MeshIds }, MaxMeasurements)

affine_registration(target, source, callback) ==
    [by |-> "affine", id |-> source.id, target |-> target.id, callback |-> callback]

soft_registration(target, source) ==
    [by |-> "soft", id |-> source.id, target |-> target.id, callback |-> "None"]

\* kind: what the call returned ("None", one "mesh", or a "list")
register(measurements, method, callback) ==
    IF Len(measurements) = 0 THEN [err |-> "none", kind |-> "None", items |-> <<>>]
    ELSE IF Len(measurements) = 1
    THEN [err |-> "none", kind |-> "mesh", items |-> <<measurements[1]>>]
    ELSE IF method \notin {"affine", "soft"}
    THEN [err |-> "NameError", kind |-> "raised", items |-> <<>>]
    ELSE LET X == measurements[1]
             Registered(i) ==
                 IF i = 1 THEN X
                 ELSE IF method = "affine"
                 THEN affine_registration(X, measurements[i], callback)
                 ELSE soft_registration(X, measurements[i])
         IN  [err |-> "none", kind |-> "list",
              items |-> Tabulate(Registered, 1, Len(measurements))]

(* ---------------------------------------------------------------------- *)
(* Population average: Registration.calculate_average_mesh and            *)
(* MeasurementManager._create_normal_measurement.  A mesh is              *)
(* [vertices, triangles]; the meshes come from constructed measurements,  *)
(* so they have vertices.  Means are exact fractions [num, den] in lowest *)
(* terms; a norm is kept as the fraction it is the square root of.        *)
(* ---------------------------------------------------------------------- *)
Abs(n) == IF n < 0 THEN -n ELSE n

RECURSIVE GCD(_, _)
GCD(a, b) == IF b = 0 THEN a ELSE GCD(b, a % b)

Frac(n, d) ==
    LET g == GCD(Abs(n), d)
    IN  [num |-> (IF n < 0 THEN -(Abs(n) \div g) ELSE n \div g), den |-> d \div g]
FracAdd(a, b) == Frac(a.num * b.den + b.num * a.den, a.den * b.den)
FracMul(a, b) == Frac(a.num * b.num, a.den * b.den)

\* the strips of n vertices the averages are taken over.  Position 2 lies
\* half way between the vertices of position 1, so that the nearest vertex
\* is a tie; position 3 lists the vertices from the far end and lies higher
MeshVertex(n, position, i) ==
    CASE position = 1 -> <<2 * i, 0, 0>>
      [] position = 2 -> <<2 * i + 1, 1, 0>>
      [] position = 3 -> <<2 * (n + 1 - i), 0, 3>>
MeshTriangle(position, i) ==
    CASE position = 1 -> <<i - 1, i, i + 1>>
      [] position = 2 -> <<i - 1, i + 1, i>>
      [] position = 3 -> <<i, i - 1, i + 1>>
TriangleMesh(n, position) ==
    LET Vertex(i) == MeshVertex(n, position, i)
        Triangle(i) == MeshTriangle(position, i)
    IN  [vertices |-> Tabulate(Vertex, 1, n),
         triangles |-> Tabulate(Triangle, 1, n - 2)]
TriangleMeshes ==
    { TriangleMesh(n, position) : n \in (MaxVertices - 1)..MaxVertices,
                                  position \in 1..3 }
TriangleMeshLists == SeqsUpTo(TriangleMeshes, MaxMeasurements)

\* the square of np.linalg.norm(v - y)
SquaredDistance(v, y) ==
    (v[1] - y[1]) * (v[1] - y[1]) + (v[2] - y[2]) * (v[2] - y[2])
        + (v[3] - y[3]) * (v[3] - y[3])

\* argmax in the place of argmin: the first farthest row
argmin_farthest(v, Y) ==
    CHOOSE idx \in 1..Len(Y) :
        /\ \A j \in 1..Len(Y) : SquaredDistance(v, Y[idx]) >= SquaredDistance(v, Y[j])
        /\ \A j \in 1..(idx - 1) : SquaredDistance(v, Y[j]) < SquaredDistance(v, Y[idx])

\* np.linalg.norm(v - Y, axis = 1).argmin(): the first row of Y at the least
\* distance from v (1-based here)
argmin(v, Y) ==
    CHOOSE idx \in 1..Len(Y) :
        /\ \A j \in 1..Len(Y) : SquaredDistance(v, Y[idx]) <= SquaredDistance(v, Y[j])
        /\ \A j \in 1..(idx - 1) : SquaredDistance(v, Y[j]) > SquaredDistance(v, Y[idx])

RECURSIVE SumOver(_, _, _, _)
SumOver(D, i, c, m) == IF m = 0 THEN 0 ELSE D[m][i][c] + SumOver(D, i, c, m - 1)

\* the mean without the division
mean_undivided(D) ==
    LET Row(i) == <<Frac(SumOver(D, i, 1, Len(D)), 1),
                    Frac(SumOver(D, i, 2, Len(D)), 1),
                    Frac(SumOver(D, i, 3, Len(D)), 1)>>
    IN  Tabulate(Row, 1, Len(D[1]))

\* np.mean(D, axis = 0) of a list of equally long lists of 3-vectors
mean(D) ==
    LET Row(i) == <<Frac(SumOver(D, i, 1, Len(D)), Len(D)),
                    Frac(SumOver(D, i, 2, Len(D)), Len(D)),
                    Frac(SumOver(D, i, 3, Len(D)), Len(D))>>
    IN  Tabulate(Row, 1, Len(D[1]))

\* np.linalg.norm(A, axis = 1): per row, the square root of the sum of squares
norm(A) ==
    LET Row(i) == [sqrt_of |-> FracAdd(FracAdd(FracMul(A[i][1], A[i][1]),
                                               FracMul(A[i][2], A[i][2])),
                                       FracMul(A[i][3], A[i][3]))]
    IN  Tabulate(Row, 1, Len(A))

\* V + A, row by row
AddRows(V, A) ==
    LET Row(i) == <<FracAdd(Frac(V[i][1], 1), A[i][1]),
                    FracAdd(Frac(V[i][2], 1), A[i][2]),
                    FracAdd(Frac(V[i][3], 1), A[i][3])>>
    IN  Tabulate(Row, 1, Len(V))

\* The returned mesh carries vertices and triangles; `magnitudes` is the
\* local the vertex colours are computed from.
calculate_average_mesh(measurements) ==
    IF Len(measurements) = 0
    THEN [err |-> "none", kind |-> "None"]
    ELSE IF Len(measurements) = 1
    THEN [err |-> "none", kind |-> "input",
          vertices |-> measurements[1].vertices,
          triangles |-> measurements[1].triangles]
    ELSE LET V == measurements[1].vertices
             T == measurements[1].triangles
             Others(m) == measurements[m + 1].vertices
             meshes == Tabulate(Others, 1, Len(measurements) - 1)
             get_nearest_displacement_vectors(X, Y) ==
                 LET Vector(i) == LET idx == argmin(X[i], Y)
                                  IN  Sub3(Y[idx], X[i])
                 IN  Tabulate(Vector, 1, Len(X))
             PerMesh(m) == get_nearest_displacement_vectors(V, meshes[m])
             displacement_vectors == Tabulate(PerMesh, 1, Len(meshes))
             average_displacement_vectors == mean(displacement_vectors)
             magnitudes == norm(average_displacement_vectors)
             TV == AddRows(V, average_displacement_vectors)
         IN  [err |-> "none", kind |-> "mesh",
              vertices |-> TV, triangles |-> T, magnitudes |-> magnitudes]

\* _create_normal_measurement that returns the averaged displacements in the
\* place of the displaced vertices
_create_normal_measurement_displacements_only(measurements) ==
    IF Len(measurements) = 0
    THEN [err |-> "none", kind |-> "None"]
    ELSE LET V == measurements[1].vertices
             T == measurements[1].triangles
         IN  IF Len(measurements) = 1
             THEN [err |-> "none", kind |-> "tuple", vertices |-> V, triangles |-> T]
             ELSE LET Others(m) == measurements[m + 1].vertices
                      meshes == Tabulate(Others, 1, Len(measurements) - 1)
                      get_nearest_displacement_vectors(X, Y) ==
                          LET Vector(i) == LET idx == argmin(X[i], Y)
                                           IN  Sub3(Y[idx], X[i])
                          IN  Tabulate(Vector, 1, Len(X))
                      PerMesh(m) == get_nearest_displacement_vectors(V, meshes[m])
                      displacement_vectors == Tabulate(PerMesh, 1, Len(meshes))
                      average_displacement_vectors == mean(displacement_vectors)
                      magnitudes == norm(average_displacement_vectors)
                  IN  [err |-> "none", kind |-> "tuple",
                       vertices |-> average_displacement_vectors, triangles |-> T,
                       magnitudes |-> magnitudes]

\* MeasurementManager._create_normal_measurement: the pair (TV, T)
_create_normal_measurement(measurements) ==
    IF Len(measurements) = 0
    THEN [err |-> "none", kind |-> "None"]
    ELSE LET V == measurements[1].vertices
             T == measurements[1].triangles
         IN  IF Len(measurements) = 1
             THEN [err |-> "none", kind |-> "tuple", vertices |-> V, triangles |-> T]
             ELSE LET Others(m) == measurements[m + 1].vertices
                      meshes == Tabulate(Others, 1, Len(measurements) - 1)
                      get_nearest_displacement_vectors(X, Y) ==
                          LET Vector(i) == LET idx == argmin(X[i], Y)
                                           IN  Sub3(Y[idx], X[i])
                          IN  Tabulate(Vector, 1, Len(X))
                      PerMesh(m) == get_nearest_displacement_vectors(V, meshes[m])
                      displacement_vectors == Tabulate(PerMesh, 1, Len(meshes))
                      average_displacement_vectors == mean(displacement_vectors)
                      magnitudes == norm(average_displacement_vectors)
                      TV == AddRows(V, average_displacement_vectors)
                  IN  [err |-> "none", kind |-> "tuple",
                       vertices |-> TV, triangles |-> T, magnitudes |-> magnitudes]

(* ---------------------------------------------------------------------- *)
(* MeasurementManager: the table of trial-data.csv, the DG2 files, and    *)
(* the control population built from them when the window is built        *)
(* ---------------------------------------------------------------------- *)
\* 1 mm in the length unit of this module (array / 1000 gives metres)
UNITS_PER_MM == 100

\* the DG2 files under the root folder, by id: the numbers of rows and of
\* columns of the header and the measurement lines, in millimetres.  The
\* file "empty" declares 0 rows and 0 columns; no file has the id "missing".
Dg2Ids == {"good", "onerow", "empty"}
Dg2File(id) ==
    CASE id = "good" -> [rows |-> 2, cols |-> 2, data |-> <<1, 0, 0, 0>>]
      [] id = "onerow" -> [rows |-> 1, cols |-> 2, data |-> <<0, 0>>]
      [] id = "empty" -> [rows |-> 0, cols |-> 0, data |-> <<>>]

\* the rows of the table: participant, posture, control, base, back,
\* pointer, angle
TableRow(participant, posture, control, base) ==
    [participant |-> participant, posture |-> posture, control |-> control,
     base |-> base, back |-> "good", pointer |-> 0, angle |-> 0]
TableRows ==
    { TableRow("P1", "a", TRUE, "good"),
      TableRow("P1", "b", TRUE, "onerow"),
      TableRow("P1", "a", FALSE, "empty"),
      TableRow("P2", "a", TRUE, "missing") }
Tables == SeqsUpTo(TableRows, MaxMeasurements)
ParticipantValues == {"P1", "P2", "P3"}
PostureValues == {"", "b"}

\* the path of the file whose stem is the id, "" when there is none
get_measurement_file_path(id) == IF id \in Dg2Ids THEN id ELSE ""

\* np.loadtxt of "" raises; contents[-number_of_elements:] is the whole
\* file, header included, when number_of_elements is 0, and astype(float)
\* raises on the header; array / 1000 converts to metres
get_dg2_as_vector(dg2_file) ==
    LET path == get_measurement_file_path(dg2_file)
    IN  IF path = "" THEN Raise("FileNotFoundError")
        ELSE LET contents == Dg2File(path)
                 number_of_elements == contents.rows * contents.cols
                 Metres(i) == contents.data[i] * UNITS_PER_MM
             IN  IF number_of_elements = 0 THEN Raise("ValueError")
                 ELSE Ok([array |-> Tabulate(Metres, 1, number_of_elements),
                          rows |-> contents.rows, cols |-> contents.cols])

\* np.flip(np.reshape(vector, [rn, cn]), axis = 1): every row right to left
Flipped(vector) ==
    LET Cell(i) == LET r == (i - 1) \div vector.cols
                       c == (i - 1) % vector.cols
                   IN  vector.array[r * vector.cols + (vector.cols - 1 - c) + 1]
    IN  [rows |-> vector.rows, cols |-> vector.cols,
         data |-> Tabulate(Cell, 1, vector.rows * vector.cols)]

get_dg2_as_matrix(dg2_file) ==
    LET vector == get_dg2_as_vector(dg2_file)
    IN  IF vector.err # "none" THEN Raise(vector.err) ELSE Ok(Flipped(vector.val))

\* the positions of the rows of the participant (with the posture, when one
\* is given), in the order of the table
Query(table, participant, posture) ==
    LET Matches(row) ==
            /\ row.participant = participant
            /\ posture # "" => row.posture = posture
    IN  Positions(table, Matches, 1)

\* CbmMeasurement(participant, base, back, record["pointer"], record["angle"])
\* on the matrices read for the record
MeasurementOf(record, back, base) ==
    IF back.err # "none" THEN Failed(<<>>, back.err, "get_dg2_as_vector")
    ELSE IF base.err # "none" THEN Failed(<<>>, base.err, "get_dg2_as_vector")
    ELSE initialise(NewObject(base.val, back.val, record.pointer, record.angle))

\* the record is the first row of the participant in the whole table
\* (iloc[0], IndexError when there is none); back is read before base
create_cbm_measurement(table, participant, posture) ==
    LET found == Query(table, participant, posture)
    IN  IF Len(found) = 0 THEN Failed(<<>>, "IndexError", "iloc")
        ELSE MeasurementOf(table[found[1]],
                           get_dg2_as_matrix(table[found[1]].back),
                           get_dg2_as_matrix(table[found[1]].base))

\* the list comprehension over the control records: the first call that
\* raises ends it, and the measurements built before are dropped
Comprehension(made) ==
    LET raising == { i \in 1..Len(made) : made[i].err # "none" }
        Object(i) == made[i].obj
    IN  IF raising # {}
        THEN [err |-> made[MinOfSet(raising)].err, at |-> MinOfSet(raising),
              stage |-> made[MinOfSet(raising)].stage, val |-> <<>>]
        ELSE [err |-> "none", at |-> 0, stage |-> "done",
              val |-> Tabulate(Object, 1, Len(made))]

\* create_cbm_measurement(row["participant"]) for every control row: only
\* the participant is passed on, and the posture is left at its default
get_normal_measurements(table) ==
    LET IsControl(row) == row.control
        records == Pick(table, Positions(table, IsControl, 1))
        Made(i) == create_cbm_measurement(table, records[i].participant, "")
    IN  Comprehension(Tabulate(Made, 1, Len(records)))

(* ---------------------------------------------------------------------- *)
(* State: the measurement object in hand and the outcome of the last call *)
(* ---------------------------------------------------------------------- *)
VARIABLES self, ret
vars == <<self, ret>>

NoObject == [type |-> "none"]
NoCall == [op |-> "none"]

Init == self = NoObject /\ ret = NoCall

\* CbmMeasurement(name, base, back, pointer, angle), called by a caller that
\* holds nothing yet.  When initialise raises, the object keeps the fields
\* assigned before the call of initialise and none of V, T, N.
Construct(base, back, pointer, angle) ==
    /\ self = NoObject
    /\ ret = NoCall
    /\ LET out == initialise(NewObject(base, back, pointer, angle))
       IN  /\ self' = out.obj
           /\ ret' = [op |-> "__init__", err |-> out.err, stage |-> out.stage,
                      locals |-> out.locals]

\* the caller drops what it holds: the measurement (main.py keeps only the
\* mesh made of it) and the outcome of the last call
Release ==
    /\ self # NoObject \/ ret # NoCall
    /\ self' = NoObject
    /\ ret' = NoCall

\* assignment to the public attributes x_resolution and y_resolution of a
\* measurement that the constructor returned
SetResolution(res) ==
    /\ self # NoObject
    /\ self.assigned = {"V", "T", "N"}
    /\ self' = [self EXCEPT !.x_resolution = res, !.y_resolution = res]
    /\ ret' = [op |-> "set_resolution"]

\* obj.initialise() on a measurement that the constructor returned: V, T and
\* N are built again from the fields the object has now; when a step raises,
\* the object keeps the V, T and N it had
InitialiseOutcome(out) ==
    [op |-> "initialise", err |-> out.err, stage |-> out.stage, locals |-> out.locals]

Initialise ==
    /\ self # NoObject
    /\ self.assigned = {"V", "T", "N"}
    /\ self' = initialise(self).obj
    /\ ret' = InitialiseOutcome(initialise(self))

MatrixOf(which) == IF which = "base" THEN self.base_matrix ELSE self.back_matrix
ModelMatrixOf(which) ==
    IF which = "base" THEN base_model_matrix
    ELSE back_model_matrix(self.pointer_position, self.recline_angle)

\* The four methods below read self.x_resolution, self.y_resolution,
\* self.pointer_position and self.recline_angle only, which __init__ assigns
\* before it calls initialise; they are called on the matrices the object
\* was given.

\* self.create_vertices(M, T) on the object's own matrix and placement
CreateVertices(which) ==
    /\ self # NoObject
    /\ LET out == create_vertices(MatrixOf(which), ModelMatrixOf(which),
                                  self.x_resolution, self.y_resolution)
       IN  ret' = [op |-> "create_vertices", which |-> which, M |-> MatrixOf(which),
                   err |-> out.err, val |-> out.val]
    /\ UNCHANGED self

\* self.create_triangles(M)
CreateTriangles(which) ==
    /\ self # NoObject
    /\ LET out == create_triangles(MatrixOf(which))
       IN  ret' = [op |-> "create_triangles", which |-> which, M |-> MatrixOf(which),
                   err |-> out.err, val |-> out.val]
    /\ UNCHANGED self

\* self.create_normals(V, T) on the untrimmed mesh of one of the matrices
CreateNormals(which) ==
    /\ self # NoObject
    /\ LET V == create_vertices(MatrixOf(which), ModelMatrixOf(which),
                                self.x_resolution, self.y_resolution)
           T == create_triangles(MatrixOf(which))
       IN  /\ V.err = "none" /\ T.err = "none"
           /\ ret' = [op |-> "create_normals", which |-> which, M |-> MatrixOf(which),
                      V |-> V.val, T |-> T.val,
                      err |-> "none", val |-> create_normals(V.val, T.val)]
    /\ UNCHANGED self

\* self.remove_unused_pins(V1, T1) on the untrimmed base mesh
RemoveUnusedPins ==
    /\ self # NoObject
    /\ LET V == create_vertices(self.base_matrix, base_model_matrix,
                                self.x_resolution, self.y_resolution)
           T == create_triangles(self.base_matrix)
       IN  /\ V.err = "none" /\ T.err = "none"
           /\ LET out == remove_unused_pins(V.val, T.val,
                                            self.pointer_position, self.recline_angle)
              IN  ret' = [op |-> "remove_unused_pins", V |-> V.val, T |-> T.val,
                          err |-> out.err, val |-> out.val]
    /\ UNCHANGED self

\* Registration.register(measurements, method, callback), a static method,
\* called by a caller that holds nothing yet
Register(measurements, method, callback) ==
    /\ self = NoObject
    /\ ret = NoCall
    /\ LET out == register(measurements, method, callback)
       IN  ret' = [op |-> "register", measurements |-> measurements,
                   method |-> method, callback |-> callback,
                   err |-> out.err, kind |-> out.kind, items |-> out.items]
    /\ UNCHANGED self

\* Registration.calculate_average_mesh(measurements), a static method, called
\* by a caller that holds nothing yet
CalculateAverageMesh(measurements) ==
    /\ self = NoObject
    /\ ret = NoCall
    /\ ret' = [op |-> "calculate_average_mesh", measurements |-> measurements,
               out |-> calculate_average_mesh(measurements)]
    /\ UNCHANGED self

\* measurement_manager._create_normal_measurement(measurements), likewise
CreateNormalMeasurement(measurements) ==
    /\ self = NoObject
    /\ ret = NoCall
    /\ ret' = [op |-> "_create_normal_measurement", measurements |-> measurements,
               out |-> _create_normal_measurement(measurements)]
    /\ UNCHANGED self

\* measurement_manager.create_cbm_measurement(participant, posture), called
\* by a caller that holds nothing yet
CreateCbmMeasurement(table, participant, posture) ==
    /\ self = NoObject
    /\ ret = NoCall
    /\ ret' = [op |-> "create_cbm_measurement", table |-> table,
               participant |-> participant, posture |-> posture,
               out |-> create_cbm_measurement(table, participant, posture)]
    /\ UNCHANGED self

\* Registration.calculate_average_mesh on what register returned: len() of
\* None or of a single mesh raises TypeError; the average of a list of
\* registered meshes is a mesh whose vertices are those the aligner gave
AverageOfRegistered(registered_controls) ==
    IF registered_controls.err # "none" THEN registered_controls.err
    ELSE IF registered_controls.kind \in {"None", "mesh"} THEN "TypeError"
    ELSE "none"

\* PosturalIndexWindow.__init__, the lines that build the control
\* population: get_normal_measurements, load_triangle_mesh on each
\* measurement, Registration.register(meshes, "affine"), then
\* Registration.calculate_average_mesh on its result.  The mesh of the i-th
\* control is InputMesh(i).  An exception of get_normal_measurements leaves
\* __init__ before anything is registered.
RegisterControls(table, control_measurements) ==
    IF control_measurements.err # "none"
    THEN [op |-> "control_population", table |-> table,
          err |-> control_measurements.err, at |-> control_measurements.at,
          stage |-> control_measurements.stage,
          constructed |-> {}, registered |-> {}, aligned |-> {}]
    ELSE LET Loaded(i) == InputMesh(i)
             control_triangle_meshes ==
                 Tabulate(Loaded, 1, Len(control_measurements.val))
             registered_controls == register(control_triangle_meshes, "affine", "None")
             average == AverageOfRegistered(registered_controls)
         IN  [op |-> "control_population", table |-> table,
              err |-> average, at |-> 0,
              stage |-> IF average = "none" THEN "done" ELSE "calculate_average_mesh",
              constructed |-> 1..Len(control_measurements.val),
              registered |-> { registered_controls.items[i].id :
                                 i \in 1..Len(registered_controls.items) },
              aligned |-> { i \in 1..Len(registered_controls.items) :
                              registered_controls.items[i].by = "affine" }]

ControlPopulation(table) ==
    /\ self = NoObject
    /\ ret = NoCall
    /\ ret' = RegisterControls(table, get_normal_measurements(table))
    /\ UNCHANGED self

Next ==
    \/ \E base \in BaseFields, back \in BackFields, placement \in PlacementValues :
            Construct(base, back, placement[1], placement[2])
    \/ Release
    \/ \E res \in ResolutionValues : SetResolution(res)
    \/ Initialise
    \/ \E which \in {"base", "back"} : CreateVertices(which)
    \/ \E which \in {"base", "back"} : CreateTriangles(which)
    \/ \E which \in {"base", "back"} : CreateNormals(which)
    \/ RemoveUnusedPins
    \/ \E measurements \in MeasurementLists, method \in MethodValues,
          callback \in CallbackValues :
            Register(measurements, method, callback)
    \/ \E table \in Tables, participant \in ParticipantValues,
          posture \in PostureValues :
            CreateCbmMeasurement(table, participant, posture)
    \/ \E table \in Tables : ControlPopulation(table)
    \/ \E measurements \in TriangleMeshLists : CalculateAverageMesh(measurements)
    \/ \E measurements \in TriangleMeshLists : CreateNormalMeasurement(measurements)

Spec == Init /\ [][Next]_vars

(* ---------------------------------------------------------------------- *)
(* Properties                                                             *)
(* ---------------------------------------------------------------------- *)
Sign(x) == IF x > 0 THEN 1 ELSE IF x < 0 THEN -1 ELSE 0
IsFlat(M) == \A i, j \in 1..Len(M.data) : M.data[i] = M.data[j]
Distinct3(t) == t[1] # t[2] /\ t[1] # t[3] /\ t[2] # t[3]
SelfCutoff == cutoff_depth(self.pointer_position, self.recline_angle)
\* the height field [[0, 0], [0, 1]]
Field0001 == [rows |-> 2, cols |-> 2, data |-> <<0, 0, 0, 1>>]

\* C1: for an R x C field with R, C >= 2, create_triangles returns exactly
\* 2 (R - 1)(C - 1) triangles, each with three mutually distinct indices in
\* 0 .. R C - 1.
C1_TriangleCountAndIndices ==
    (ret.op = "create_triangles" /\ ret.M.rows >= 2 /\ ret.M.cols >= 2)
        => /\ ret.err = "none"
           /\ Len(ret.val) = 2 * (ret.M.rows - 1) * (ret.M.cols - 1)
           /\ \A i \in 1..Len(ret.val) :
                /\ Distinct3(ret.val[i])
                /\ \A k \in 1..3 : ret.val[i][k] \in 0..(ret.M.rows * ret.M.cols - 1)

C1_Witness ==
    /\ ret.op = "create_triangles"
    /\ ret.M.rows = 3 /\ ret.M.cols = 3
    /\ Len(ret.val) = 8

\* C2: on a flat field placed with the identity transform, the normals of all
\* the triangles of create_triangles have the same sign of their z component.
C2_FlatNormalsSameSide ==
    (ret.op = "create_normals" /\ ret.which = "base" /\ IsFlat(ret.M))
        => \A i, j \in 1..Len(ret.val) : Sign(ret.val[i][3]) = Sign(ret.val[j][3])

C2_Witness ==
    /\ ret.op = "create_normals" /\ ret.which = "base" /\ IsFlat(ret.M)
    /\ ret.M.rows = 3 /\ ret.M.cols = 3
    /\ Len(ret.val) = 8
    /\ ret.val[1][3] # 0 /\ ret.val[2][3] # 0

\* C3: whenever remove_unused_pins returns a mesh, the least triangle index
\* is 0 and the greatest is the number of returned vertices minus 1.
C3_DenseRenumbering ==
    (ret.op = "remove_unused_pins" /\ ret.err = "none")
        => /\ MinOfSet(TriangleIndices(ret.val.T)) = 0
           /\ MaxOfSet(TriangleIndices(ret.val.T)) = Len(ret.val.V) - 1

C3_Witness ==
    /\ ret.op = "remove_unused_pins" /\ ret.err = "none"
    /\ Len(ret.val.V) < Len(ret.V)
    /\ Len(ret.val.T) >= 2

\* C4 as stated: remove_unused_pins keeps a vertex if and only if its y
\* coordinate is greater than or equal to the cutoff depth.
C4_KeepsAtOrBeyondCutoff ==
    (ret.op = "remove_unused_pins" /\ ret.err = "none")
        => LET AtOrBeyond(v) == v[2] >= SelfCutoff
           IN  ret.val.V = SelectSeq(ret.V, AtOrBeyond)

\* C4 amended: remove_unused_pins keeps a vertex if and only if its y
\* coordinate is below the cutoff depth; every vertex whose y coordinate is
\* greater than or equal to the cutoff depth is removed.
C4_KeepsBelowCutoff ==
    (ret.op = "remove_unused_pins" /\ ret.err = "none")
        => LET Below(v) == v[2] < SelfCutoff
           IN  /\ ret.val.V = SelectSeq(ret.V, Below)
               /\ \A i \in 1..Len(ret.val.V) : ~(ret.val.V[i][2] >= SelfCutoff)

C4_Witness ==
    /\ ret.op = "remove_unused_pins" /\ ret.err = "none"
    /\ \E i \in 1..Len(ret.V) : ret.V[i][2] = SelfCutoff
    /\ \E i \in 1..Len(ret.V) : ret.V[i][2] < SelfCutoff
    /\ Len(ret.val.V) < Len(ret.V)

\* C5: in the mesh assembled by initialise, with n the number of base
\* vertices left after trimming, every back triangle has its three indices
\* equal to the original ones plus n (so all >= n) and every base triangle has
\* its three indices below n.
C5_BackTrianglesOffsetByN ==
    (ret.op \in {"__init__", "initialise"} /\ ret.err = "none")
        => LET n == Len(ret.locals.V1)
               base_count == Len(ret.locals.T1)
           IN  /\ ret.locals.number_of_vertices_in_v1 = n
               /\ Len(self.T) = base_count + Len(ret.locals.T2)
               /\ \A i \in 1..base_count : \A k \in 1..3 :
                    self.T[i][k] = ret.locals.T1[i][k] /\ self.T[i][k] < n
               /\ \A j \in 1..Len(ret.locals.T2) : \A k \in 1..3 :
                    /\ self.T[base_count + j][k] = ret.locals.T2[j][k] + n
                    /\ self.T[base_count + j][k] >= n

C5_Witness ==
    /\ ret.op = "__init__" /\ ret.err = "none"
    /\ Len(ret.locals.V1) < self.base_matrix.rows * self.base_matrix.cols
    /\ Len(ret.locals.V1) > 0
    /\ Len(ret.locals.T2) >= 2

\* C6: after a successful construction the number of normals equals the
\* number of triangles and every index stored in T is a position of V.
C6_MeshWellFormed ==
    (self # NoObject /\ self.assigned # {})
        => /\ self.assigned = {"V", "T", "N"}
           /\ Len(self.N) = Len(self.T)
           /\ \A i \in 1..Len(self.T) : \A k \in 1..3 :
                0 <= self.T[i][k] /\ self.T[i][k] < Len(self.V)

C6_Witness ==
    /\ ret.op = "__init__" /\ ret.err = "none"
    /\ self.assigned = {"V", "T", "N"}
    /\ Len(self.T) >= 4
    /\ Len(self.V) >= 8

\* C7 as stated: for [[0, 0], [0, 1]] with resolution 1 and the identity
\* transform the four vertices are (0,0,0), (1,0,0), (0,1,0) and (1,1,-1).
C7_DepthCellAtOneOne ==
    (/\ ret.op = "create_vertices" /\ ret.which = "base" /\ ret.M = Field0001
     /\ self.x_resolution = 1 /\ self.y_resolution = 1)
        => /\ ret.err = "none"
           /\ Len(ret.val) = 4
           /\ { ret.val[i] : i \in 1..Len(ret.val) }
                = { <<0, 0, 0>>, <<1, 0, 0>>, <<0, 1, 0>>, <<1, 1, -1>> }

\* C7 amended: for [[0, 0], [0, 1]] with resolution 1 and the identity
\* transform create_vertices yields, in order, (0,1,0), (1,1,0), (0,0,0) and
\* (1,0,-1): the cell of depth 1 becomes the vertex (1,0,-1); and
\* create_triangles yields 2 triangles whose normals are both non-zero.
C7_DepthCellAtOneZero ==
    /\ (/\ ret.op = "create_vertices" /\ ret.which = "base" /\ ret.M = Field0001
        /\ self.x_resolution = 1 /\ self.y_resolution = 1)
          => /\ ret.err = "none"
             /\ ret.val = << <<0, 1, 0>>, <<1, 1, 0>>, <<0, 0, 0>>, <<1, 0, -1>> >>
    /\ (/\ ret.op = "create_normals" /\ ret.which = "base" /\ ret.M = Field0001
        /\ self.x_resolution = 1 /\ self.y_resolution = 1)
          => /\ ret.V = << <<0, 1, 0>>, <<1, 1, 0>>, <<0, 0, 0>>, <<1, 0, -1>> >>
             /\ Len(ret.T) = 2
             /\ Len(ret.val) = 2
             /\ ret.val[1] # <<0, 0, 0>> /\ ret.val[2] # <<0, 0, 0>>

C7_Witness ==
    /\ ret.op = "create_normals" /\ ret.which = "base" /\ ret.M = Field0001
    /\ self.x_resolution = 1 /\ self.y_resolution = 1
    /\ ret.V[4] = <<1, 0, -1>>
    /\ Len(ret.val) = 2

\* C8: create_triangles fails for every matrix with fewer than 2 rows or
\* fewer than 2 columns, and a construction with such a base or back matrix
\* fails with that error and leaves none of V, T, N assigned.
C8_SmallGridRejected ==
    /\ (ret.op = "create_triangles" /\ (ret.M.rows < 2 \/ ret.M.cols < 2))
          => ret.err = "ValueError"
    /\ (/\ ret.op = "__init__"
        /\ \/ self.base_matrix.rows < 2 \/ self.base_matrix.cols < 2
           \/ self.back_matrix.rows < 2 \/ self.back_matrix.cols < 2)
          => /\ ret.err = "ValueError"
             /\ self.assigned = {}

C8_Witness ==
    /\ ret.op = "__init__" /\ ret.err = "ValueError"
    /\ ret.stage = "create_triangles"
    /\ self.base_matrix.rows = 3 /\ self.base_matrix.cols = 3
    /\ self.back_matrix.rows = 1 /\ self.back_matrix.cols = 2
    /\ self.assigned = {}

\* the vertices (positions in V) and triangles (positions in T) that the
\* trimming rule leaves: y below the cutoff, all three corners left
LeftVertices(V) == { p \in 1..Len(V) : V[p][2] < SelfCutoff }
LeftTriangles(V, T) ==
    { i \in 1..Len(T) : \A k \in 1..3 : (T[i][k] + 1) \in LeftVertices(V) }

\* C9: whenever trimming the base mesh leaves zero vertices or zero
\* triangles (also when one grid row of vertices is left), remove_unused_pins
\* fails with an error instead of returning a mesh, and the constructor
\* passes that error on.
C9_EmptyTrimFails ==
    /\ (/\ ret.op = "remove_unused_pins"
        /\ (LeftVertices(ret.V) = {} \/ LeftTriangles(ret.V, ret.T) = {}))
          => ret.err = "ValueError" /\ ret.val = <<>>
    /\ (ret.op = "__init__" /\ ret.err = "none")
          => Len(ret.locals.V1) > 0 /\ Len(ret.locals.T1) > 0

C9_Witness ==
    /\ ret.op = "remove_unused_pins" /\ ret.err = "ValueError"
    /\ Cardinality(LeftVertices(ret.V)) = self.base_matrix.cols
    /\ LeftTriangles(ret.V, ret.T) = {}

\* C10: for every non-empty list of n point sets and each of the methods
\* rigid, affine and soft, register returns a list of n results whose first
\* element is the first input and whose element i is input i registered onto
\* the first input by that method.
C10_RegisterReturnsListOfN ==
    (/\ ret.op = "register" /\ Len(ret.measurements) >= 1
     /\ ret.method \in {"rigid", "affine", "soft"})
        => /\ ret.err = "none"
           /\ ret.kind = "list"
           /\ Len(ret.items) = Len(ret.measurements)
           /\ ret.items[1] = ret.measurements[1]
           /\ \A i \in 2..Len(ret.items) :
                /\ ret.items[i].by = ret.method
                /\ ret.items[i].id = ret.measurements[i].id
                /\ ret.items[i].target = ret.measurements[1].id

\* C11: register called with zero point sets fails with an error that
\* reaches the caller; it does not return normally.
C11_EmptyListRaises ==
    (ret.op = "register" /\ Len(ret.measurements) = 0)
        => ret.err # "none"

\* C12: register fails with the unsupported-method error if and only if the
\* method is not one of rigid, affine, soft, whatever the number of point
\* sets.
C12_NameErrorIffUnlisted ==
    (ret.op = "register")
        => (ret.err = "NameError" <=> ret.method \notin {"rigid", "affine", "soft"})

\* C20: a progress callback given to register is forwarded to the aligner of
\* every non-target point set, for every supported method, soft included.
C20_CallbackForwarded ==
    (/\ ret.op = "register"
     /\ ret.kind = "list"
     /\ ret.callback # "None")
        => \A i \in 2..Len(ret.items) : ret.items[i].callback = ret.callback

\* C14: when the control population is built and registered, a scan whose
\* construction fails does not stop the others: every control scan of the
\* population that constructs on its own (the k-th control row, as
\* create_cbm_measurement builds it) is constructed and registered.
C14_OtherScansStillProcessed ==
    (ret.op = "control_population")
        => LET IsControl(row) == row.control
               records == SelectSeq(ret.table, IsControl)
           IN  \A k \in 1..Len(records) :
                 create_cbm_measurement(ret.table, records[k].participant, "").err = "none"
                     => k \in ret.constructed /\ k \in ret.registered

\* the back vertices before placement: create_vertices under the identity
Unplaced ==
    create_vertices(ret.M, Identity4, self.x_resolution, self.y_resolution).val

\* the back mesh of an object reclined at 0 degrees with the pointer at 0
BackAtRest ==
    /\ self # NoObject
    /\ ret.op = "create_vertices" /\ ret.which = "back" /\ ret.err = "none"
    /\ self.recline_angle = 0 /\ self.pointer_position = 0

\* C15 as stated: for recline angle 0 and pointer offset 0, every back
\* vertex lies at a y-offset of pointer offset plus base-to-back gap (0.02 m)
\* from its position before placement.
C15_BackShiftedAlongYByGap ==
    BackAtRest
        => \A i \in 1..Len(ret.val) :
             ret.val[i][2] - Unplaced[i][2]
                 = self.pointer_position + HEIGHT_FROM_BASE_TO_BACK

\* C15 amended: for recline angle 0 and pointer offset 0, the placement
\* sends the back vertex (x, y, z) to (x, 0.235 - y, -0.175 - z): x is kept,
\* y is mirrored about the pivot (pivot depth 0.215 m plus pivot height
\* 0.02 m, plus the pointer offset), and the base-to-back gap of 0.02 m
\* enters the z coordinate (pivot height minus pivot depth plus gap), not y.
C15_BackMirroredGapAlongZ ==
    BackAtRest
        => \A i \in 1..Len(ret.val) :
             /\ ret.val[i][1] = Unplaced[i][1]
             /\ ret.val[i][2] = (self.pointer_position + 23500) - Unplaced[i][2]
             /\ ret.val[i][3] = (-17500) - Unplaced[i][3]

C15_Witness ==
    /\ BackAtRest
    /\ Len(ret.val) = 4
    /\ Unplaced[1] = <<0, self.y_resolution, -MaxDepth>>
    /\ ret.val[1] = <<0, 23500 - self.y_resolution, MaxDepth - 17500>>

\* C16: for every base grid under the identity placement and every cutoff,
\* the vertices that remove_unused_pins keeps are a trailing block of the
\* vertex array, ending at its last vertex; so when a mesh is returned,
\* every index of a returned triangle points, in the returned vertex array,
\* at the vertex that the triangle had in the untrimmed mesh.
C16_KeptVerticesTrailingBlock ==
    (ret.op = "remove_unused_pins")
        => LET n == Len(ret.V)
               kept == LeftVertices(ret.V)
               AllLeft(t) == \A k \in 1..3 : (t[k] + 1) \in kept
               surviving == SelectSeq(ret.T, AllLeft)
           IN  /\ kept = (n - Cardinality(kept) + 1)..n
               /\ ret.err = "none" =>
                    /\ Len(ret.val.V) = Cardinality(kept)
                    /\ Len(ret.val.T) = Len(surviving)
                    /\ \A i \in 1..Len(ret.val.T) : \A k \in 1..3 :
                         ret.val.V[ret.val.T[i][k] + 1] = ret.V[surviving[i][k] + 1]

C16_Witness ==
    /\ ret.op = "remove_unused_pins" /\ ret.err = "none"
    /\ LeftVertices(ret.V) # {}
    /\ 1 \notin LeftVertices(ret.V)
    /\ ret.val.V[ret.val.T[1][1] + 1] = ret.V[Len(ret.V) - Len(ret.val.V) + 1]

\* C17: in remove_unused_pins a triangle is returned if and only if all
\* three of its vertices are returned; the returned triangles are, in order
\* and up to the renumbering, the triangles whose three vertices were kept.
C17_TriangleSurvivesIffCornersDo ==
    (ret.op = "remove_unused_pins" /\ ret.err = "none")
        => LET m == Len(ret.V) - Len(ret.val.V)
               Survived(v) == \E j \in 1..Len(ret.val.V) : ret.val.V[j] = v
               AllSurvive(t) == \A k \in 1..3 : Survived(ret.V[t[k] + 1])
               Back(i) == <<ret.val.T[i][1] + m, ret.val.T[i][2] + m,
                            ret.val.T[i][3] + m>>
           IN  Tabulate(Back, 1, Len(ret.val.T)) = SelectSeq(ret.T, AllSurvive)

C17_Witness ==
    /\ ret.op = "remove_unused_pins" /\ ret.err = "none"
    /\ \E i \in 1..Len(ret.T) :
         /\ (ret.T[i][1] + 1) \in LeftVertices(ret.V)
         /\ (ret.T[i][2] + 1) \notin LeftVertices(ret.V)
    /\ \E i \in 1..Len(ret.T) :
         \A k \in 1..3 : (ret.T[i][k] + 1) \in LeftVertices(ret.V)

\* a vertex with float coordinates that are whole numbers
AsFracs(v) == <<Frac(v[1], 1), Frac(v[2], 1), Frac(v[3], 1)>>

\* the first vertex of Y among those nearest to v
FirstNearest(v, Y) ==
    LET least == MinOfSet({ SquaredDistance(v, Y[j]) : j \in 1..Len(Y) })
    IN  Y[MinOfSet({ j \in 1..Len(Y) : SquaredDistance(v, Y[j]) = least })]

Averaged == ret.op = "calculate_average_mesh" /\ Len(ret.measurements) >= 2

\* C13: when calculate_average_mesh is given a reference mesh followed by one
\* or more meshes with the same vertex positions, every magnitude is zero
\* and every vertex of the mean shape is the reference vertex.
C13_IdenticalMeshesZeroDisplacement ==
    (/\ Averaged
     /\ \A m \in 2..Len(ret.measurements) :
          ret.measurements[m].vertices = ret.measurements[1].vertices)
        => /\ Len(ret.out.magnitudes) = Len(ret.measurements[1].vertices)
           /\ \A i \in 1..Len(ret.out.magnitudes) :
                ret.out.magnitudes[i] = [sqrt_of |-> Frac(0, 1)]
           /\ Len(ret.out.vertices) = Len(ret.measurements[1].vertices)
           /\ \A i \in 1..Len(ret.out.vertices) :
                ret.out.vertices[i] = AsFracs(ret.measurements[1].vertices[i])

C13_Witness ==
    /\ Averaged
    /\ Len(ret.measurements) = 3
    /\ \A m \in 2..3 : ret.measurements[m].vertices = ret.measurements[1].vertices
    /\ Len(ret.measurements[1].vertices) = MaxVertices
    /\ ret.measurements[1].vertices[1] = <<2 * MaxVertices, 0, 3>>
    /\ ret.out.magnitudes[MaxVertices] = [sqrt_of |-> Frac(0, 1)]
    /\ ret.out.vertices[1] = AsFracs(<<2 * MaxVertices, 0, 3>>)

\* C18: for a reference mesh and k >= 1 other meshes, calculate_average_mesh
\* returns the reference's triangle list and as many vertices as the
\* reference has, vertex i being reference vertex i plus the mean over the k
\* meshes of (nearest vertex of the mesh minus reference vertex i); with
\* k = 0 it returns the reference mesh, and with k = 1 every returned vertex
\* is the nearest vertex of the other mesh.
C18_MeanOfNearestDisplacements ==
    (ret.op = "calculate_average_mesh" /\ Len(ret.measurements) >= 1)
        => LET reference == ret.measurements[1]
               k == Len(ret.measurements) - 1
               Nearest(m, i) ==
                   FirstNearest(reference.vertices[i], ret.measurements[m + 1].vertices)
               RECURSIVE Total(_, _, _)
               Total(i, c, m) ==
                   IF m = 0 THEN 0
                   ELSE (Nearest(m, i)[c] - reference.vertices[i][c]) + Total(i, c, m - 1)
               Expected(i, c) == Frac(k * reference.vertices[i][c] + Total(i, c, k), k)
           IN  /\ ret.out.err = "none"
               /\ ret.out.triangles = reference.triangles
               /\ Len(ret.out.vertices) = Len(reference.vertices)
               /\ k = 0 => ret.out.vertices = reference.vertices
               /\ k >= 1 => \A i \in 1..Len(reference.vertices) :
                    ret.out.vertices[i]
                        = <<Expected(i, 1), Expected(i, 2), Expected(i, 3)>>
               /\ k = 1 => \A i \in 1..Len(reference.vertices) :
                    ret.out.vertices[i] = AsFracs(Nearest(1, i))

C18_Witness ==
    /\ Averaged
    /\ Len(ret.measurements) = 3
    /\ ret.measurements[2].vertices # ret.measurements[3].vertices
    /\ Len(ret.measurements[2].vertices) # Len(ret.measurements[1].vertices)
    /\ \E i \in 1..Len(ret.out.vertices) : ret.out.vertices[i][1].den = 2

\* C19: calculate_average_mesh and _create_normal_measurement are
\* equivalent: for every list of meshes, of length 0, 1 or more, both return
\* nothing or both return the same vertex positions with the same triangle
\* list.
C19_AverageRoutinesAgree ==
    (ret.op \in {"calculate_average_mesh", "_create_normal_measurement"})
        => LET other == IF ret.op = "calculate_average_mesh"
                        THEN _create_normal_measurement(ret.measurements)
                        ELSE calculate_average_mesh(ret.measurements)
           IN  /\ ret.out.err = "none" /\ other.err = "none"
               /\ (ret.out.kind = "None") <=> (other.kind = "None")
               /\ (ret.out.kind = "None") <=> (Len(ret.measurements) = 0)
               /\ ret.out.kind # "None" =>
                    /\ ret.out.vertices = other.vertices
                    /\ ret.out.triangles = other.triangles

C19_Witness ==
    /\ ret.op = "_create_normal_measurement"
    /\ Len(ret.measurements) = 3
    /\ ret.out.kind = "tuple"
    /\ ret.out.vertices[1] # AsFracs(ret.measurements[1].vertices[1])
    /\ ret.out.vertices = calculate_average_mesh(ret.measurements).vertices

====
